---------------------------- MODULE Spec2Model ----------------------------
(***************************************************************************)
(* Trivia Time API (src/src/index.ts): the request handlers of "/",        *)
(* "/v1/categories" and "/v1/trivia", the schema check in front of the     *)
(* trivia handler and the onError hook, over the two in-memory collections *)
(* `categories` and `trivia` imported at start-up.                         *)
(*                                                                         *)
(* Strings that the code parses (category, limit) are sequences of         *)
(* one-character strings, so that Number() and the ^[0-9]+$ pattern are    *)
(* computed and not assumed.  A JSON array is a sequence, a JSON object a  *)
(* record.  A query is a record whose domain holds the parameters present. *)
(***************************************************************************)
EXTENDS Integers, Sequences, FiniteSets

VARIABLES
    categories,     \* the imported categories array (index.ts:5)
    trivia,         \* the imported trivia array (index.ts:6)
    loaded,         \* what the two imports held when the process started
    request,        \* the request in flight: [route, query]
    response,       \* the response built for it: [status, type, body]
    log,            \* console.log lines written while serving it (index.ts:116)
    pc,             \* "idle" | "responded"
    failedBefore    \* some earlier /v1/trivia request was answered with an error

vars == <<categories, trivia, loaded, request, response, log, pc, failedBefore>>

---------------------------------------------------------------------------
(* Bounds of the model *)

\* the largest number of questions in the loaded trivia collection
MaxTrivia == 3

\* ids a loaded category may carry
CategoryIds == {0, 1}

\* difficulties the loaded questions carry ("medium" is asked for, and matches
\* none of them)
Difficulties == {"easy", "hard"}

---------------------------------------------------------------------------
(* Program constants *)

\* `${BASE_URL}/docs`
DocsUrl == "https://trivia-time-api.onrender.com/docs"

DefaultDifficulty == "any"

DefaultLimit == 10

MinLimit == 1

MaxLimit == 50

\* the enum of the difficulty parameter
DifficultyEnum == {"easy", "medium", "hard", "any"}

\* the codes the onError hook maps
ErrorCodes == {"UNKNOWN", "NOT_FOUND", "PARSE", "VALIDATION", "INTERNAL_SERVER_ERROR"}

CategoryErrorMessage == "Invalid value for parameter 'category'."

LimitErrorMessage == "Invalid value for parameter 'limit'. Must be between 1 and 50."

SchemaCategoryError == "Missing or Invalid required parameter 'category'."

SchemaDifficultyError == "Invalid value for parameter 'difficulty'."

SchemaLimitError == "Invalid value for parameter 'limit'."

WelcomeText == "Welcome to The Trivia Time API!"

---------------------------------------------------------------------------
(* Strings and numbers *)

Digits == {"0", "1", "2", "3", "4", "5", "6", "7", "8", "9"}

DigitValue(c) ==
    CASE c = "0" -> 0 [] c = "1" -> 1 [] c = "2" -> 2 [] c = "3" -> 3
      [] c = "4" -> 4 [] c = "5" -> 5 [] c = "6" -> 6 [] c = "7" -> 7
      [] c = "8" -> 8 [] c = "9" -> 9

\* the pattern "^[0-9]+$": one or more characters, all of them digits
MatchesDigits(s) == Len(s) >= 1 /\ \A i \in 1..Len(s) : s[i] \in Digits

\* Number() of something that is not a number
NaN == -1

RECURSIVE DecimalValue(_)
DecimalValue(s) ==
    IF s = <<>> THEN 0
    ELSE 10 * DecimalValue(SubSeq(s, 1, Len(s) - 1)) + DigitValue(s[Len(s)])

\* Number(s) of a string: the decimal value of a digit string (leading zeros
\* dropped), 0 for the empty string, NaN otherwise
Number(s) ==
    IF \A i \in 1..Len(s) : s[i] \in Digits THEN DecimalValue(s) ELSE NaN

---------------------------------------------------------------------------
(* The data the process loads *)

CategoryName(id) == IF id = 0 THEN "General Knowledge" ELSE "Science"

Category(id) == [id |-> id, name |-> CategoryName(id), image |-> ""]

QuestionOptions == <<[id |-> 1, text |-> "A"], [id |-> 2, text |-> "B"]>>

Question(id, category, difficulty) ==
    [id |-> id, question |-> "Q", options |-> QuestionOptions, answer |-> 2,
     category |-> category, difficulty |-> difficulty]

\* the sequences over S of length at most n
SeqsUpTo(S, n) == UNION {[1..k -> S] : k \in 0..n}

\* categories.json: one record per id, ids unique, in any order
CategoryLists ==
    {[i \in DOMAIN ids |-> Category(ids[i])] :
        ids \in {s \in SeqsUpTo(CategoryIds, Cardinality(CategoryIds)) :
                    /\ Len(s) >= 1
                    /\ \A i, j \in DOMAIN s : i # j => s[i] # s[j]}}

\* trivia.json: question ids unique, every category that of a loaded category
TriviaLists(cats) ==
    LET catIds == {cats[i].id : i \in DOMAIN cats}
    IN  {[i \in DOMAIN s |-> Question(i, s[i][1], s[i][2])] :
            s \in SeqsUpTo(catIds \X Difficulties, MaxTrivia)}

---------------------------------------------------------------------------
(* Requests *)

NoQuery == [p \in {} |-> <<>>]

CategoryInputs == {<<"0">>, <<"1">>, <<"0", "1">>, <<"7">>, <<"x">>, <<>>}

DifficultyInputs == {"easy", "medium", "hard", "any", "bogus"}

LimitInputs == {<<"0">>, <<"1">>, <<"2">>, <<"5", "0">>, <<"5", "1">>, <<"x">>}

\* the query strings a client may send: every parameter present or absent
Queries ==
    {NoQuery}
    \cup {[category |-> c] : c \in CategoryInputs}
    \cup {[difficulty |-> d] : d \in DifficultyInputs}
    \cup {[limit |-> l] : l \in LimitInputs}
    \cup {[category |-> c, difficulty |-> d] :
            c \in CategoryInputs, d \in DifficultyInputs}
    \cup {[category |-> c, limit |-> l] : c \in CategoryInputs, l \in LimitInputs}
    \cup {[difficulty |-> d, limit |-> l] :
            d \in DifficultyInputs, l \in LimitInputs}
    \cup {[category |-> c, difficulty |-> d, limit |-> l] :
            c \in CategoryInputs, d \in DifficultyInputs, l \in LimitInputs}

NoRequest == [route |-> "", query |-> NoQuery]

NoResponse == [status |-> 0, type |-> "none", body |-> <<>>]

---------------------------------------------------------------------------
(* Responses *)

\* new Response(JSON.stringify(value), {status}) / new Response(text)
Response(type, body, status) == [status |-> status, type |-> type, body |-> body]

sendError(error, status, code) ==
    Response("object", [error_type |-> code, error |-> error, docs |-> DocsUrl],
             status)

statusCodesParseAsFault(code) ==
    CASE code = "UNKNOWN" -> 500
      [] code = "NOT_FOUND" -> 404
      [] code = "PARSE" -> 500
      [] code = "VALIDATION" -> 400
      [] code = "INTERNAL_SERVER_ERROR" -> 500

statusCodes(code) ==
    CASE code = "UNKNOWN" -> 500
      [] code = "NOT_FOUND" -> 404
      [] code = "PARSE" -> 400
      [] code = "VALIDATION" -> 400
      [] code = "INTERNAL_SERVER_ERROR" -> 500

onError(code, message) == sendError(message, statusCodes(code), code)

---------------------------------------------------------------------------
(* Schema of the /v1/trivia query (checked before the handler body) *)

ValidCategoryParam(q) == "category" \in DOMAIN q /\ MatchesDigits(q.category)

ValidDifficultyParamAnyString(q) == TRUE

ValidDifficultyParam(q) ==
    "difficulty" \in DOMAIN q => q.difficulty \in DifficultyEnum

ValidLimitParam(q) == "limit" \in DOMAIN q => MatchesDigits(q.limit)

ValidQuery(q) ==
    ValidCategoryParam(q) /\ ValidDifficultyParam(q) /\ ValidLimitParam(q)

\* the `error` text of the first property of the schema that fails
SchemaErrorMessage(q) ==
    IF ~ValidCategoryParam(q) THEN SchemaCategoryError
    ELSE IF ~ValidDifficultyParam(q) THEN SchemaDifficultyError
    ELSE SchemaLimitError

---------------------------------------------------------------------------
(* Array operations *)

\* every reordering of arr
Reorderings(arr) ==
    LET n == Len(arr)
    IN  {[i \in 1..n |-> arr[p[i]]] :
            p \in {f \in [1..n -> 1..n] : \A i, j \in 1..n : i # j => f[i] # f[j]}}

RECURSIVE filter(_, _, _)
\* arr.filter(t => MatchesFilter(t, category, difficulty)): a new array
MatchesFilterCategoryOnly(t, category, difficulty) == t.category = category

MatchesFilter(t, category, difficulty) ==
    /\ t.category = category
    /\ (difficulty = "any" \/ t.difficulty = difficulty)

filter(arr, category, difficulty) ==
    IF arr = <<>> THEN <<>>
    ELSE IF MatchesFilter(Head(arr), category, difficulty)
         THEN <<Head(arr)>> \o filter(Tail(arr), category, difficulty)
         ELSE filter(Tail(arr), category, difficulty)

\* a sort that loses the last element it was given
sortLossy(arr) ==
    Reorderings(arr) \cup
    (IF arr = <<>> THEN {} ELSE Reorderings(SubSeq(arr, 1, Len(arr) - 1)))

\* arr.sort(() => Math.random() - 0.5): the comparator answers at random, so
\* the array may end in any order; the engine's sort only moves elements
sort(arr) == Reorderings(arr)

min(a, b) == IF a < b THEN a ELSE b

sliceInclusive(arr, start, end) ==
    IF end = NaN THEN <<>> ELSE SubSeq(arr, start + 1, min(end + 1, Len(arr)))

\* arr.slice(start, end) for start >= 0: the elements at indices start..end-1
\* that exist; a NaN end counts as 0
slice(arr, start, end) ==
    IF end = NaN THEN <<>> ELSE SubSeq(arr, start + 1, min(end, Len(arr)))

\* the trivia collection once the handler has sorted its filtered array in
\* place: filter() returned a new array, so the collection is as it was
storeAfterSortShared(store, category, difficulty) ==
    {s \in Reorderings(store) :
        \A i \in DOMAIN s :
            ~MatchesFilter(store[i], category, difficulty) => s[i] = store[i]}

storeAfterSort(store, category, difficulty) == {store}

---------------------------------------------------------------------------
(* The handlers *)

\* a < b and a > b of JavaScript: false when either side is NaN
Less(a, b) == a # NaN /\ b # NaN /\ a < b

Greater(a, b) == a # NaN /\ b # NaN /\ a > b

categoryFoundTruthyId(cats, n) ==
    \E i \in DOMAIN cats :
        /\ cats[i].id = n
        /\ \A j \in 1..(i - 1) : cats[j].id # n
        /\ cats[i].id # 0

\* categories.find((c) => c.id === n) is an element (an object, truthy)
categoryFound(cats, n) == \E i \in DOMAIN cats : cats[i].id = n

limitOutOfRangeFromZero(n) == Less(n, 0) \/ Greater(n, MaxLimit)

\* Number(limit) < 1 || Number(limit) > 50
limitOutOfRange(n) == Less(n, MinLimit) \/ Greater(n, MaxLimit)

categoriesResponseSorted(cats) ==
    Response("array",
             IF Len(cats) >= 2 /\ cats[1].id > cats[2].id
             THEN <<cats[2], cats[1]>> \o SubSeq(cats, 3, Len(cats)) ELSE cats,
             200)

\* GET /v1/categories
categoriesResponse(cats) == Response("array", cats, 200)

\* GET /
rootResponse == Response("text", WelcomeText, 200)

\* const { category, difficulty = "any", limit = 10 } = query
difficultyOf(q) ==
    IF "difficulty" \in DOMAIN q THEN q.difficulty ELSE DefaultDifficulty

limitOf(q) == IF "limit" \in DOMAIN q THEN Number(q.limit) ELSE DefaultLimit

categoryOf(q) == IF "category" \in DOMAIN q THEN Number(q.category) ELSE NaN

\* the two checks at the head of the handler body: "NOT_FOUND", "VALIDATION"
\* or "OK"
handlerCheckLimitFirst(cats, q) ==
    IF limitOutOfRange(limitOf(q)) THEN "VALIDATION"
    ELSE IF ~categoryFound(cats, categoryOf(q)) THEN "NOT_FOUND"
    ELSE "OK"

handlerCheck(cats, q) ==
    IF ~categoryFound(cats, categoryOf(q)) THEN "NOT_FOUND"
    ELSE IF limitOutOfRange(limitOf(q)) THEN "VALIDATION"
    ELSE "OK"

\* console.log({ category, difficulty, limit })
logLine(q) ==
    [category |-> IF "category" \in DOMAIN q THEN q.category ELSE <<>>,
     difficulty |-> difficultyOf(q),
     limit |-> IF "limit" \in DOMAIN q THEN q.limit ELSE DefaultLimit]

---------------------------------------------------------------------------
(* Actions *)

Init ==
    /\ categories \in CategoryLists
    /\ trivia \in TriviaLists(categories)
    /\ loaded = [categories |-> categories, trivia |-> trivia]
    /\ request = NoRequest
    /\ response = NoResponse
    /\ log = <<>>
    /\ pc = "idle"
    /\ failedBefore = FALSE

\* GET /
Root ==
    /\ pc = "idle"
    /\ request' = [route |-> "/", query |-> NoQuery]
    /\ response' = rootResponse
    /\ pc' = "responded"
    /\ UNCHANGED <<categories, trivia, loaded, log, failedBefore>>

\* GET /v1/categories
Categories ==
    /\ pc = "idle"
    /\ request' = [route |-> "/v1/categories", query |-> NoQuery]
    /\ response' = categoriesResponse(categories)
    /\ pc' = "responded"
    /\ UNCHANGED <<categories, trivia, loaded, log, failedBefore>>

\* GET /v1/trivia?...: the schema check, then the handler body
Trivia ==
    /\ pc = "idle"
    /\ \E q \in Queries :
        /\ request' = [route |-> "/v1/trivia", query |-> q]
        /\ IF ~ValidQuery(q)
           THEN /\ response' = onError("VALIDATION", SchemaErrorMessage(q))
                /\ UNCHANGED <<trivia, log>>
           ELSE /\ log' = <<logLine(q)>>
                /\ CASE handlerCheck(categories, q) = "NOT_FOUND" ->
                          /\ response' = sendError(CategoryErrorMessage, 404, "NOT_FOUND")
                          /\ UNCHANGED trivia
                     [] handlerCheck(categories, q) = "VALIDATION" ->
                          /\ response' = sendError(LimitErrorMessage, 400, "VALIDATION")
                          /\ UNCHANGED trivia
                     [] OTHER ->
                          LET filteredTrivia ==
                                  filter(trivia, categoryOf(q), difficultyOf(q))
                          IN  /\ \E shuffledTrivia \in sort(filteredTrivia) :
                                    response' = Response("array",
                                        slice(shuffledTrivia, 0, limitOf(q)), 200)
                              /\ trivia' \in storeAfterSort(trivia, categoryOf(q),
                                                            difficultyOf(q))
    /\ pc' = "responded"
    /\ UNCHANGED <<categories, loaded, failedBefore>>

\* a request no handler of the application serves: the framework raises
\* `code` (NOT_FOUND for an unmatched route) and calls the onError hook
Unhandled ==
    /\ pc = "idle"
    /\ \E code \in ErrorCodes \ {"VALIDATION"} :
        /\ request' = [route |-> "/unmatched", query |-> NoQuery]
        /\ response' = onError(code, code)
    /\ pc' = "responded"
    /\ UNCHANGED <<categories, trivia, loaded, log, failedBefore>>

\* the response is sent; the per-request values are gone
Deliver ==
    /\ pc = "responded"
    /\ failedBefore' =
          (failedBefore \/ (request.route = "/v1/trivia" /\ response.status # 200))
    /\ request' = NoRequest
    /\ response' = NoResponse
    /\ log' = <<>>
    /\ pc' = "idle"
    /\ UNCHANGED <<categories, trivia, loaded>>

Next == Root \/ Categories \/ Trivia \/ Unhandled \/ Deliver

Spec == Init /\ [][Next]_vars

---------------------------------------------------------------------------
(* What the properties below speak of, in the words of the specification *)

Answered == pc = "responded"

TriviaAnswered == Answered /\ request.route = "/v1/trivia"

TriviaOk == TriviaAnswered /\ response.status = 200 /\ response.type = "array"

IsError(status, code) ==
    /\ response.status = status
    /\ response.type = "object"
    /\ response.body.error_type = code

\* the value matches ^[0-9]+$
IsDigitString(s) == s # <<>> /\ \A i \in DOMAIN s : s[i] \in Digits

\* the query has the shape the interface declares
WellFormed(q) ==
    /\ "category" \in DOMAIN q /\ IsDigitString(q.category)
    /\ "difficulty" \in DOMAIN q => q.difficulty \in {"easy", "medium", "hard", "any"}
    /\ "limit" \in DOMAIN q => IsDigitString(q.limit)

RequestedCategory == DecimalValue(request.query.category)

RequestedDifficulty ==
    IF "difficulty" \in DOMAIN request.query THEN request.query.difficulty ELSE "any"

RequestedLimit ==
    IF "limit" \in DOMAIN request.query THEN DecimalValue(request.query.limit) ELSE 10

CategoryExists(n) == \E i \in DOMAIN loaded.categories : loaded.categories[i].id = n

\* the positions of the loaded questions that match the request's filter
Matching ==
    {i \in DOMAIN loaded.trivia :
        /\ loaded.trivia[i].category = RequestedCategory
        /\ (RequestedDifficulty # "any" =>
                loaded.trivia[i].difficulty = RequestedDifficulty)}

LimitGivenOutOfRange ==
    /\ "limit" \in DOMAIN request.query
    /\ IsDigitString(request.query.limit)
    /\ (RequestedLimit < 1 \/ RequestedLimit > 50)

---------------------------------------------------------------------------
(* Properties *)

\* C1: every question of a 200 answer of /v1/trivia has the requested
\* category and, unless the requested difficulty is "any" (the default), the
\* requested difficulty.
C1_ReturnedQuestionsMatchFilter ==
    TriviaOk =>
        \A i \in DOMAIN response.body :
            /\ response.body[i].category = RequestedCategory
            /\ (RequestedDifficulty # "any" =>
                    response.body[i].difficulty = RequestedDifficulty)

C1_Witness ==
    /\ TriviaOk
    /\ RequestedDifficulty = "easy"
    /\ Len(response.body) >= 1
    /\ \E i \in DOMAIN trivia :
          trivia[i].category = RequestedCategory /\ trivia[i].difficulty # "easy"
    /\ \E i \in DOMAIN trivia : trivia[i].category # RequestedCategory

\* C2: the array of a 200 answer of /v1/trivia holds exactly
\* min(limit, number of matching questions) questions, limit being 10 when
\* the parameter is omitted.
C2_LengthIsMinOfLimitAndMatches ==
    TriviaOk =>
        /\ Len(response.body) <= RequestedLimit
        /\ Len(response.body) <= Cardinality(Matching)
        /\ (Len(response.body) = RequestedLimit
                \/ Len(response.body) = Cardinality(Matching))

C2_Witness ==
    /\ TriviaOk
    /\ RequestedLimit = 2
    /\ Cardinality(Matching) = 3
    /\ Len(response.body) = 2

\* C3 as stated: every /v1/trivia request whose limit is a digit string with
\* a value outside [1, 50] is answered with 400 VALIDATION.
C3_Original ==
    (TriviaAnswered /\ LimitGivenOutOfRange) => IsError(400, "VALIDATION")

\* C3 amended: such a request is never answered with a 200 array; it is
\* answered with 400 VALIDATION, except that a well-formed request whose
\* category is no loaded category's id is answered with 404 NOT_FOUND.
C3_LimitOutOfRangeRejected ==
    (TriviaAnswered /\ LimitGivenOutOfRange) =>
        IF WellFormed(request.query) /\ ~CategoryExists(RequestedCategory)
        THEN IsError(404, "NOT_FOUND")
        ELSE IsError(400, "VALIDATION")

C3_Witness ==
    /\ TriviaAnswered
    /\ WellFormed(request.query)
    /\ CategoryExists(RequestedCategory)
    /\ RequestedLimit = 51
    /\ IsError(400, "VALIDATION")
    /\ response.body.error = LimitErrorMessage

\* C4: a well-formed /v1/trivia request whose category parses to no loaded
\* category's id is answered with 404 NOT_FOUND; a request whose category
\* parses to a loaded category's id (leading zeros included) is never
\* answered with 404.
C4_UnknownCategoryIsNotFound ==
    TriviaAnswered =>
        /\ (WellFormed(request.query) /\ ~CategoryExists(RequestedCategory))
              => IsError(404, "NOT_FOUND")
        /\ ("category" \in DOMAIN request.query
              /\ IsDigitString(request.query.category)
              /\ CategoryExists(RequestedCategory))
              => response.status # 404

C4_Witness ==
    /\ TriviaOk
    /\ request.query.category = <<"0", "1">>
    /\ CategoryExists(1)
    /\ Len(response.body) >= 1

\* C5: a 200 answer of /v1/trivia whose limit is at least the number of
\* matching questions holds every matching question of the loaded collection
\* exactly once and nothing else, so two identical such requests, whenever
\* they are made, return the same set of questions.
C5_CompleteAnswerIsPermutationOfMatches ==
    (TriviaOk /\ RequestedLimit >= Cardinality(Matching)) =>
        /\ Len(response.body) = Cardinality(Matching)
        /\ \A m \in Matching :
              Cardinality({i \in DOMAIN response.body :
                              response.body[i] = loaded.trivia[m]}) = 1

C5_Witness ==
    /\ TriviaOk
    /\ failedBefore
    /\ RequestedLimit >= Cardinality(Matching)
    /\ Len(response.body) = 3
    /\ response.body[1].id > response.body[3].id

\* C6: every answer is either a success (status 200, no error object) or one
\* error object {error_type, error, docs} whose docs is the documentation
\* link and whose status is the one of its error_type.
C6_UniformErrorShape ==
    Answered =>
        /\ response.type \in {"text", "array", "object"}
        /\ response.type # "object" => response.status = 200
        /\ response.type = "object" =>
              /\ DOMAIN response.body = {"error_type", "error", "docs"}
              /\ response.body.docs = "https://trivia-time-api.onrender.com/docs"
              /\ \/ response.body.error_type = "VALIDATION" /\ response.status = 400
                 \/ response.body.error_type = "PARSE" /\ response.status = 400
                 \/ response.body.error_type = "NOT_FOUND" /\ response.status = 404
                 \/ response.body.error_type = "INTERNAL_SERVER_ERROR"
                        /\ response.status = 500
                 \/ response.body.error_type = "UNKNOWN" /\ response.status = 500

C6_Witness == Answered /\ IsError(400, "PARSE")

\* C7: /v1/categories answers 200 with the loaded category records, all of
\* them, in their original order, each with id, image and name, also after
\* failed /v1/trivia requests.
C7_CategoriesReturnedAsLoaded ==
    (Answered /\ request.route = "/v1/categories") =>
        /\ response.status = 200
        /\ response.type = "array"
        /\ response.body = loaded.categories
        /\ \A i \in DOMAIN response.body :
              DOMAIN response.body[i] = {"id", "image", "name"}

C7_Witness ==
    /\ Answered
    /\ request.route = "/v1/categories"
    /\ failedBefore
    /\ Len(response.body) = 2
    /\ response.body[1].id > response.body[2].id

\* C8: a well-formed /v1/trivia request with an unknown category and a limit
\* outside [1, 50] is answered with 404 NOT_FOUND, and the limit-range error
\* is only reported for a request whose category exists.
C8_CategoryCheckedBeforeLimit ==
    TriviaAnswered =>
        /\ (WellFormed(request.query) /\ ~CategoryExists(RequestedCategory)
              /\ (RequestedLimit < 1 \/ RequestedLimit > 50))
              => IsError(404, "NOT_FOUND")
        /\ (response.type = "object" /\ response.body.error = LimitErrorMessage)
              => (WellFormed(request.query) /\ CategoryExists(RequestedCategory))

C8_Witness ==
    /\ TriviaAnswered
    /\ "category" \in DOMAIN request.query
    /\ request.query.category = <<"7">>
    /\ "limit" \in DOMAIN request.query
    /\ request.query.limit = <<"0">>
    /\ IsError(404, "NOT_FOUND")

\* C9: a /v1/trivia request that is not well-formed is answered with 400
\* VALIDATION whatever its other parameters are, and the handler body (its
\* log line, the filter/shuffle/limit pipeline) does not run for it.
C9_SchemaCheckedBeforeHandler ==
    (TriviaAnswered /\ ~WellFormed(request.query)) =>
        /\ IsError(400, "VALIDATION")
        /\ log = <<>>

C9_Witness ==
    /\ TriviaAnswered
    /\ "category" \in DOMAIN request.query
    /\ request.query.category = <<"7">>
    /\ "difficulty" \in DOMAIN request.query
    /\ request.query.difficulty = "bogus"
    /\ IsError(400, "VALIDATION")

\* C10: no step changes the trivia collection or the category collection, in
\* content or in order.
C10_DataStoreNeverMutated ==
    [][categories' = categories /\ trivia' = trivia]_vars

C10_Witness ==
    /\ TriviaOk
    /\ failedBefore
    /\ Len(response.body) = 2
    /\ response.body[1].id > response.body[2].id
    /\ trivia = loaded.trivia
    /\ categories = loaded.categories

===========================================================================
